---- MODULE Spec2Model ----
(***************************************************************************)
(* Model of the video-identifier extraction and metadata-resolution logic  *)
(* of src/lib/videoUtils.ts (fetchVideoData, downloadVideo and their       *)
(* helpers).  A JavaScript string is a sequence of one-character strings,  *)
(* so that regular-expression matching, String.replace, substring,         *)
(* padStart and number formatting are computed on characters as the code   *)
(* computes them.                                                          *)
(***************************************************************************)
EXTENDS Integers, Sequences, FiniteSets, TLC

VARIABLES
    op,         \* the library function being executed: "none", "extract", "fetch", "mock", "download"
    pc,         \* position inside the running call (the await it is suspended at)
    url,        \* argument url
    platform,   \* argument platform
    quality,    \* argument quality (downloadVideo)
    videoId,    \* const videoId = extractVideoId(url, platform)
    data,       \* const data = await response.json() (oEmbed payload)
    outcome,    \* how the promise settled: pending, a record, an error, or void
    path,       \* the branch that produced the settled value
    fetches,    \* the requests issued by the running call, in order
    clicks,     \* the file names of the anchors clicked by the running call, in order
    toasts,     \* the toast notifications raised by the running call, in order
    prev,       \* the last record an earlier call returned from a catch (fallback) branch
    nCalls,     \* number of calls started so far
    objectUrls, \* the object URLs the running call created and has not revoked
    index,      \* the useState values of the Index page
    urlInput,   \* the useState values of the UrlInput component
    pending,    \* the calls of fetchVideoData and downloadVideo the page is awaiting
    resolvedFor \* the url and platform of the call whose record is in index.videoData

\* The state of a call of the library.
libVars == <<op, pc, url, platform, quality, videoId, data, outcome, path,
             fetches, clicks, toasts, prev, nCalls, objectUrls>>

\* The state of the page.
pageVars == <<index, urlInput, pending, resolvedFor>>

vars == <<op, pc, url, platform, quality, videoId, data, outcome, path,
          fetches, clicks, toasts, prev, nCalls, objectUrls,
          index, urlInput, pending, resolvedFor>>

(***************************************************************************)
(* Bounds of the model.                                                    *)
(***************************************************************************)
MaxCalls == 2

(***************************************************************************)
(* Types of the program.                                                   *)
(***************************************************************************)
Platform == {"youtube", "instagram", "tiktok"}

\* The platform tag as a string of characters.
PlatformName(p) ==
    CASE p = "youtube" -> <<"y","o","u","t","u","b","e">>
      [] p = "instagram" -> <<"i","n","s","t","a","g","r","a","m">>
      [] p = "tiktok" -> <<"t","i","k","t","o","k">>

Quality == <<"4k", "1080p", "720p", "480p", "360p", "audio">>

SeqToSet(s) == {s[i] : i \in 1..Len(s)}

\* JavaScript null / undefined versus a string value.
Null == [present |-> FALSE, v |-> <<>>]

Str(s) == [present |-> TRUE, v |-> s]

\* JavaScript truthiness of a string-or-undefined value: undefined and "" are falsy.
Truthy(x) == x.present /\ x.v # <<>>

\* a ?? b: only undefined is replaced.
OrElse_Nullish(x, s) == IF x.present THEN x.v ELSE s

\* a || b on string-or-undefined operands, b a string.
OrElse(x, s) == IF Truthy(x) THEN x.v ELSE s

(***************************************************************************)
(* Character classes and string helpers.                                   *)
(***************************************************************************)
Digits == {"0", "1", "2", "3", "4", "5", "6", "7", "8", "9"}

DigitChar(d) == <<"0","1","2","3","4","5","6","7","8","9">>[d + 1]

Upper == <<"A","B","C","D","E","F","G","H","I","J","K","L","M","N","O","P","Q","R","S","T","U","V","W","X","Y","Z">>

LowerAlpha == <<"a","b","c","d","e","f","g","h","i","j","k","l","m","n","o","p","q","r","s","t","u","v","w","x","y","z">>

ToLowerChar(c) ==
    IF \E i \in 1..Len(Upper) : Upper[i] = c
    THEN LowerAlpha[CHOOSE i \in 1..Len(Upper) : Upper[i] = c]
    ELSE c

\* The literal lit occurs in s at position i.
MatchAt(s, i, lit) ==
    /\ i >= 1
    /\ i + Len(lit) - 1 <= Len(s)
    /\ \A k \in 1..Len(lit) : s[i + k - 1] = lit[k]

\* Length of the longest run of characters satisfying a class, starting at position j
\* (a greedy X+ or X* of a regular expression).
RECURSIVE RunNot(_, _, _)
RunNot(s, j, stop) ==
    IF j > Len(s) \/ s[j] \in stop THEN 0 ELSE 1 + RunNot(s, j + 1, stop)

RECURSIVE RunIn(_, _, _)
RunIn(s, j, class) ==
    IF j > Len(s) \/ s[j] \notin class THEN 0 ELSE 1 + RunIn(s, j + 1, class)

Min(a, b) == IF a <= b THEN a ELSE b

\* String.prototype.substring(0, n)
Substring0(s, n) == SubSeq(s, 1, Min(n, Len(s)))

\* String.prototype.includes
Includes(s, lit) == \E i \in 1..(Len(s) + 1) : MatchAt(s, i, lit)

\* String.prototype.replace(pattern, replacement) with a string pattern: the first
\* occurrence only.
Replace(s, pat, rep) ==
    IF ~Includes(s, pat) THEN s
    ELSE LET i == CHOOSE k \in 1..Len(s) :
                      MatchAt(s, k, pat) /\ \A m \in 1..(k - 1) : ~MatchAt(s, m, pat)
         IN SubSeq(s, 1, i - 1) \o rep \o SubSeq(s, i + Len(pat), Len(s))

\* Number.prototype.toString for integers.
RECURSIVE NatToChars(_)
NatToChars(n) ==
    IF n < 10 THEN <<DigitChar(n)>> ELSE NatToChars(n \div 10) \o <<DigitChar(n % 10)>>

NumToChars(n) == IF n < 0 THEN <<"-">> \o NatToChars(-n) ELSE NatToChars(n)

\* String.prototype.padStart(2, '0')
PadStart2(s) ==
    IF Len(s) >= 2 THEN s ELSE IF Len(s) = 1 THEN <<"0">> \o s ELSE <<"0", "0">>

\* The JavaScript remainder a % b (b > 0): the sign of the dividend.
JsRem(a, b) == IF a >= 0 THEN a % b ELSE -((-a) % b)

\* The estimate with the quotient truncated instead of rounded.
RoundDiv_Truncating(n, d) == n \div d

\* Math.round(n / d) for integers n and d > 0 (halves round towards +Infinity).
RoundDiv(n, d) == (2 * n + d) \div (2 * d)

\* String.prototype.charCodeAt(0) of an identifier character (letters, digits, '-'
\* and '_'), and the sum of the character codes of an identifier.
CharCode(c) ==
    IF c \in Digits THEN 47 + (CHOOSE i \in 1..10 : DigitChar(i - 1) = c)
    ELSE IF \E i \in 1..Len(Upper) : Upper[i] = c
         THEN 64 + (CHOOSE i \in 1..Len(Upper) : Upper[i] = c)
    ELSE IF \E i \in 1..Len(LowerAlpha) : LowerAlpha[i] = c
         THEN 96 + (CHOOSE i \in 1..Len(LowerAlpha) : LowerAlpha[i] = c)
    ELSE IF c = "-" THEN 45
    ELSE 95

RECURSIVE Seed(_)
Seed(id) == IF id = <<>> THEN 0 ELSE CharCode(Head(id)) + Seed(Tail(id))

(***************************************************************************)
(* formatDuration                                                          *)
(***************************************************************************)
formatDuration(seconds) ==
    LET minutes == seconds \div 60
        remainingSeconds == JsRem(seconds, 60)
    IN NumToChars(minutes) \o <<":">> \o PadStart2(NumToChars(remainingSeconds))

(***************************************************************************)
(* extractVideoId: the three regular expressions, matched as                *)
(* String.prototype.match does: the leftmost position at which the whole    *)
(* pattern matches, the capture group taken greedily.                       *)
(***************************************************************************)
\* /(?:youtube\.com\/watch\?v=|youtu\.be\/)([^&]+)/
YoutubeAlternatives == {<<"y","o","u","t","u","b","e",".","c","o","m","/","w","a","t","c","h","?","v","=">>, <<"y","o","u","t","u",".","b","e","/">>}

\* /instagram\.com\/(?:p|reel|tv)\/([^\/]+)/
InstagramAlternatives == {<<"i","n","s","t","a","g","r","a","m",".","c","o","m","/","p","/">>, <<"i","n","s","t","a","g","r","a","m",".","c","o","m","/","r","e","e","l","/">>, <<"i","n","s","t","a","g","r","a","m",".","c","o","m","/","t","v","/">>}

\* The <<match start, capture start>> pairs at which one of the literal alternatives,
\* followed by a non-empty capture of characters outside `stop`, matches.
LiteralCaptureStarts(s, alternatives, stop) ==
    {<<m[1], m[1] + Len(m[2])>> :
        m \in {n \in (1..Len(s)) \X alternatives :
                  MatchAt(s, n[1], n[2]) /\ RunNot(s, n[1] + Len(n[2]), stop) >= 1}}

\* /tiktok\.com\/(?:@[^\/]+\/video\/|v\/)(\d+)/ : the position of the capture group
\* when the non-capturing part matches at i, 0 when it does not.
TiktokCaptureAt(s, i) ==
    IF MatchAt(s, i, <<"t","i","k","t","o","k",".","c","o","m","/","@">>)
    THEN LET u == i + Len(<<"t","i","k","t","o","k",".","c","o","m","/","@">>)
             n == RunNot(s, u, {"/"})
         IN IF n >= 1 /\ MatchAt(s, u + n, <<"/","v","i","d","e","o","/">>)
            THEN u + n + Len(<<"/","v","i","d","e","o","/">>)
            ELSE 0
    ELSE IF MatchAt(s, i, <<"t","i","k","t","o","k",".","c","o","m","/","v","/">>)
         THEN i + Len(<<"t","i","k","t","o","k",".","c","o","m","/","v","/">>)
         ELSE 0

TiktokCaptureStarts(s) ==
    {<<i, TiktokCaptureAt(s, i)>> :
        i \in {k \in 1..Len(s) :
                  TiktokCaptureAt(s, k) > 0 /\ RunIn(s, TiktokCaptureAt(s, k), Digits) >= 1}}

\* String.prototype.match returns the leftmost match.
Leftmost_Last(starts) == CHOOSE m \in starts : \A o \in starts : m[1] >= o[1]

Leftmost(starts) == CHOOSE m \in starts : \A o \in starts : m[1] <= o[1]

\* url.match(/(?:youtube\.com\/watch\?v=|youtu\.be\/)([^&]+)/); match ? match[1] : null
MatchYoutube(u) ==
    LET starts == LiteralCaptureStarts(u, YoutubeAlternatives, {"&"})
    IN IF starts = {} THEN Null
       ELSE LET j == Leftmost(starts)[2]
            IN Str(SubSeq(u, j, j + RunNot(u, j, {"&"}) - 1))

\* url.match(/instagram\.com\/(?:p|reel|tv)\/([^\/]+)/); match ? match[1] : null
MatchInstagram(u) ==
    LET starts == LiteralCaptureStarts(u, InstagramAlternatives, {"/"})
    IN IF starts = {} THEN Null
       ELSE LET j == Leftmost(starts)[2]
            IN Str(SubSeq(u, j, j + RunNot(u, j, {"/"}) - 1))

\* url.match(/tiktok\.com\/(?:@[^\/]+\/video\/|v\/)(\d+)/); match ? match[1] : null
MatchTiktok(u) ==
    LET starts == TiktokCaptureStarts(u)
    IN IF starts = {} THEN Null
       ELSE LET j == Leftmost(starts)[2]
            IN Str(SubSeq(u, j, j + RunIn(u, j, Digits) - 1))

\* The switch without its case labels: the first pattern that matches, whatever the
\* platform.
extractVideoId_AnyPlatform(u, p) ==
    IF MatchYoutube(u) # Null THEN MatchYoutube(u)
    ELSE IF MatchInstagram(u) # Null THEN MatchInstagram(u)
    ELSE MatchTiktok(u)

extractVideoId(u, p) ==
    CASE p = "youtube" -> MatchYoutube(u)
      [] p = "instagram" -> MatchInstagram(u)
      [] p = "tiktok" -> MatchTiktok(u)
      [] OTHER -> Null

\* if (!videoId) throw new Error(`Invalid ${platform} URL format`), without the check.
InvalidFormatThrown_Never(id) == FALSE

\* if (!videoId) throw new Error(`Invalid ${platform} URL format`)
InvalidFormatThrown(id) == ~Truthy(id)

(***************************************************************************)
(* Inputs: URLs are composed of a lead (scheme and www), a URL shape of    *)
(* one platform, an identifier and a tail.                                  *)
(***************************************************************************)
Leads == {<<>>, <<"h","t","t","p","s",":","/","/">>, <<"h","t","t","p","s",":","/","/","w","w","w",".">>, <<"H","T","T","P","S",":","/","/","w","w","w",".">>}

\* The URL shapes each platform documents, in lower case.
Shapes(p) ==
    CASE p = "youtube" -> {<<"y","o","u","t","u","b","e",".","c","o","m","/","w","a","t","c","h","?","v","=">>, <<"y","o","u","t","u",".","b","e","/">>}
      [] p = "instagram" -> {<<"i","n","s","t","a","g","r","a","m",".","c","o","m","/","p","/">>, <<"i","n","s","t","a","g","r","a","m",".","c","o","m","/","r","e","e","l","/">>, <<"i","n","s","t","a","g","r","a","m",".","c","o","m","/","t","v","/">>}
      [] p = "tiktok" -> {<<"t","i","k","t","o","k",".","c","o","m","/","@","u","s","e","r","/","v","i","d","e","o","/">>, <<"t","i","k","t","o","k",".","c","o","m","/","v","/">>}

\* The same hosts as a browser address bar or a share sheet may spell them.
MixedCaseShapes(p) ==
    CASE p = "youtube" -> {<<"Y","o","u","T","u","b","e",".","c","o","m","/","w","a","t","c","h","?","v","=">>, <<"Y","O","U","T","U",".","B","E","/">>}
      [] p = "instagram" -> {<<"I","n","s","t","a","g","r","a","m",".","c","o","m","/","p","/">>}
      [] p = "tiktok" -> {<<"T","i","k","T","o","k",".","c","o","m","/","v","/">>}

Ids(p) ==
    CASE p = "youtube" -> {<<"d","Q","w","4","w","9","W","g","X","c","Q">>, <<"a","b","c","1","2","3">>, <<"7">>}
      [] p = "instagram" -> {<<"C","x","Y","z","_","9","-","a","B">>, <<"a","b","c","1","2","3">>, <<"7">>}
      [] p = "tiktok" -> {<<"7","3","0","1">>, <<"4","2">>, <<"7">>}

\* What follows the identifier: nothing, or the rest of the query or path, which may
\* itself quote a second URL of the platform.
Tails(p) ==
    CASE p = "youtube" -> {<<>>, <<"&","t","=","4","2">>, <<"&","n","e","x","t","=","y","o","u","t","u",".","b","e","/","z","z">>}
      [] p = "instagram" -> {<<>>, <<"/">>, <<"/","?","n","e","x","t","=","i","n","s","t","a","g","r","a","m",".","c","o","m","/","p","/","z","z">>}
      [] p = "tiktok" -> {<<>>, <<"?","l","a","n","g","=","e","n">>, <<"/","t","i","k","t","o","k",".","c","o","m","/","v","/","9","9">>}

UrlsOfShapes(p, shapes) ==
    {l \o s \o i \o t : l \in Leads, s \in shapes, i \in Ids(p), t \in Tails(p)}

\* Well-formed URLs of platform p.
UrlsOf(p) == UrlsOfShapes(p, Shapes(p))

\* Inputs that belong to no platform, and URLs of a platform without an identifier.
Unrelated ==
    {<<>>, <<"n","o","t"," ","a"," ","u","r","l">>, <<"h","t","t","p","s",":","/","/","e","x","a","m","p","l","e",".","c","o","m","/","w","a","t","c","h","?","v","=","a","b","c","1","2","3">>, <<"y","o","u","t","u","b","e">>,
     <<"h","t","t","p","s",":","/","/","y","o","u","t","u",".","b","e","/">>, <<"h","t","t","p","s",":","/","/","w","w","w",".","i","n","s","t","a","g","r","a","m",".","c","o","m","/","s","t","o","r","i","e","s","/">>,
     <<"h","t","t","p","s",":","/","/","w","w","w",".","t","i","k","t","o","k",".","c","o","m","/","v","/","a","b","c">>, <<"h","t","t","p","s",":","/","/","w","w","w",".","t","i","k","t","o","k",".","c","o","m","/","@","u","s","e","r">>}

Urls ==
    UNION {UrlsOf(p) : p \in Platform}
      \cup UNION {UrlsOfShapes(p, MixedCaseShapes(p)) : p \in Platform}
      \cup Unrelated

\* The URLs the calls of fetchVideoData and downloadVideo are made with.
CallUrls ==
    {<<"h","t","t","p","s",":","/","/","y","o","u","t","u",".","b","e","/","d","Q","w","4","w","9","W","g","X","c","Q">>,
     <<"h","t","t","p","s",":","/","/","w","w","w",".","y","o","u","t","u","b","e",".","c","o","m","/","w","a","t","c","h","?","v","=","a","b","c","1","2","3","&","t","=","4","2">>,
     <<"y","o","u","t","u",".","b","e","/","7">>,
     <<"y","o","u","t","u",".","b","e","/","3","2","1","c","b","a">>,
     <<"h","t","t","p","s",":","/","/","w","w","w",".","i","n","s","t","a","g","r","a","m",".","c","o","m","/","p","/","C","x","Y","z","_","9","-","a","B","/">>,
     <<"h","t","t","p","s",":","/","/","i","n","s","t","a","g","r","a","m",".","c","o","m","/","r","e","e","l","/","a","b","c","1","2","3">>,
     <<"h","t","t","p","s",":","/","/","w","w","w",".","t","i","k","t","o","k",".","c","o","m","/","@","u","s","e","r","/","v","i","d","e","o","/","7","3","0","1">>,
     <<"t","i","k","t","o","k",".","c","o","m","/","v","/","4","2","?","l","a","n","g","=","e","n">>,
     <<"H","T","T","P","S",":","/","/","w","w","w",".","Y","O","U","T","U",".","B","E","/","a","b","c","1","2","3">>,
     <<"h","t","t","p","s",":","/","/","I","n","s","t","a","g","r","a","m",".","c","o","m","/","p","/","a","b","c","1","2","3">>}
      \cup Unrelated

(***************************************************************************)
(* Values of the state.                                                    *)
(***************************************************************************)
NoRecord ==
    [title |-> <<>>, thumbnail |-> <<>>, duration |-> <<>>, fileSize |-> <<>>,
     author |-> <<>>, availableQualities |-> <<>>]

Pending == [kind |-> "pending", record |-> NoRecord, error |-> "none"]

Resolved(r) == [kind |-> "resolved", record |-> r, error |-> "none"]

\* resolves with undefined (Promise<void>)
ResolvedVoid == [kind |-> "resolved", record |-> NoRecord, error |-> "none"]

Rejected(e) == [kind |-> "rejected", record |-> NoRecord, error |-> e]

NoData == [isNull |-> TRUE, title |-> Null, thumbnail_url |-> Null, author_name |-> Null]

NoPrev == [present |-> FALSE, videoId |-> <<>>, platform |-> "none", record |-> NoRecord]

InitCommon ==
    /\ quality = "none"
    /\ videoId = Null
    /\ data = NoData
    /\ outcome = Pending
    /\ path = "none"
    /\ fetches = <<>>
    /\ clicks = <<>>
    /\ toasts = <<>>
    /\ prev = NoPrev
    /\ objectUrls = <<>>

(***************************************************************************)
(* What the network may answer.                                            *)
(***************************************************************************)
OptionalTitles == {Null, Str(<<>>), Str(<<"N","e","v","e","r"," ","G","o","n","n","a"," ","G","i","v","e"," ","Y","o","u"," ","U","p">>)}

OptionalThumbnails == {Null, Str(<<>>), Str(<<"h","t","t","p","s",":","/","/","i",".","y","t","i","m","g",".","c","o","m","/","v","i","/","x","/","h","q","d","e","f","a","u","l","t",".","j","p","g">>)}

OptionalAuthors == {Null, Str(<<"R","i","c","k"," ","A","s","t","l","e","y">>)}

\* response.json() of an oEmbed endpoint: null, or an object whose fields may be
\* missing or empty.
OembedPayloads ==
    {NoData} \cup
    [isNull : {FALSE}, title : OptionalTitles, thumbnail_url : OptionalThumbnails,
     author_name : OptionalAuthors]

\* invidData.lengthSeconds: missing, or an integer.
NoLength == [present |-> FALSE, n |-> 0]

LengthSeconds ==
    {NoLength} \cup [present : {TRUE}, n : {0, -5, 7, 45, 60, 212, 3700}]

(***************************************************************************)
(* The records fetchVideoData builds.                                      *)
(***************************************************************************)
YoutubeQualities == <<"1080p", "720p", "480p", "360p", "audio">>

InstagramQualities == <<"1080p", "720p", "480p">>

TiktokQualities == <<"720p", "480p", "360p">>

YoutubeThumbnail(id) == <<"h","t","t","p","s",":","/","/","i","m","g",".","y","o","u","t","u","b","e",".","c","o","m","/","v","i","/">> \o id \o <<"/","m","a","x","r","e","s","d","e","f","a","u","l","t",".","j","p","g">>

\* data.thumbnail_url?.replace('hqdefault', 'maxresdefault')
YoutubeThumbnailOf(d) ==
    IF d.thumbnail_url.present
    THEN Str(Replace(d.thumbnail_url.v, <<"h","q","d","e","f","a","u","l","t">>, <<"m","a","x","r","e","s","d","e","f","a","u","l","t">>))
    ELSE Null

\* The youtube record that gives up the payload as soon as its title or its thumbnail
\* is missing.
YoutubePrimaryRecord_FallbackOnMissing(id, d, durationSecs, estimatedSizeMB) ==
    IF Truthy(d.title) /\ Truthy(d.thumbnail_url)
    THEN [title |-> d.title.v,
          thumbnail |-> YoutubeThumbnailOf(d).v,
          duration |-> formatDuration(durationSecs),
          fileSize |-> NumToChars(estimatedSizeMB) \o <<" ","M","B">>,
          author |-> OrElse(d.author_name, <<"Y","o","u","T","u","b","e"," ","C","r","e","a","t","o","r">>),
          availableQualities |-> YoutubeQualities]
    ELSE [title |-> <<"Y","o","u","T","u","b","e"," ","V","i","d","e","o"," ","(">> \o id \o <<")">>,
          thumbnail |-> YoutubeThumbnail(id),
          duration |-> formatDuration(180),
          fileSize |-> <<"2","5"," ","M","B">>,
          author |-> <<"Y","o","u","T","u","b","e"," ","C","r","e","a","t","o","r">>,
          availableQualities |-> YoutubeQualities]

YoutubePrimaryRecord(id, d, durationSecs, estimatedSizeMB) ==
    [title |-> OrElse(d.title, <<"Y","o","u","T","u","b","e"," ","V","i","d","e","o">>),
     thumbnail |-> OrElse(YoutubeThumbnailOf(d), YoutubeThumbnail(id)),
     duration |-> formatDuration(durationSecs),
     fileSize |-> NumToChars(estimatedSizeMB) \o <<" ","M","B">>,
     author |-> OrElse(d.author_name, <<"Y","o","u","T","u","b","e"," ","C","r","e","a","t","o","r">>),
     availableQualities |-> YoutubeQualities]

\* The record of the youtube catch branch, had it been drawn from the sum of the
\* character codes of the identifier.
YoutubeFallbackRecord_Seeded(id) ==
    [title |-> <<"Y","o","u","T","u","b","e"," ","V","i","d","e","o"," ","(">> \o id \o <<")">>,
     thumbnail |-> YoutubeThumbnail(id),
     duration |-> formatDuration(120 + (Seed(id) % 240)),
     fileSize |-> NumToChars(10 + (Seed(id) % 40)) \o <<" ","M","B">>,
     author |-> <<"Y","o","u","T","u","b","e"," ","C","r","e","a","t","o","r">>,
     availableQualities |-> YoutubeQualities]

YoutubeFallbackRecord(id) ==
    [title |-> <<"Y","o","u","T","u","b","e"," ","V","i","d","e","o"," ","(">> \o id \o <<")">>,
     thumbnail |-> YoutubeThumbnail(id),
     duration |-> formatDuration(180),
     fileSize |-> <<"2","5"," ","M","B">>,
     author |-> <<"Y","o","u","T","u","b","e"," ","C","r","e","a","t","o","r">>,
     availableQualities |-> YoutubeQualities]

\* The instagram record with the tier list of the youtube branch.
InstagramPrimaryRecord_YoutubeTiers(id, d) ==
    [title |-> OrElse(d.title, <<"I","n","s","t","a","g","r","a","m"," ","P","o","s","t"," ","b","y"," ">> \o OrElse(d.author_name, <<"U","s","e","r">>)),
     thumbnail |-> OrElse(d.thumbnail_url,
                          <<"h","t","t","p","s",":","/","/","w","w","w",".","i","n","s","t","a","g","r","a","m",".","c","o","m","/","p","/">> \o id \o <<"/","m","e","d","i","a","/","?","s","i","z","e","=","l">>),
     duration |-> formatDuration(30),
     fileSize |-> <<"1","5"," ","M","B">>,
     author |-> OrElse(d.author_name, <<"@">> \o Substring0(id, 8)),
     availableQualities |-> YoutubeQualities]

InstagramPrimaryRecord(id, d) ==
    [title |-> OrElse(d.title, <<"I","n","s","t","a","g","r","a","m"," ","P","o","s","t"," ","b","y"," ">> \o OrElse(d.author_name, <<"U","s","e","r">>)),
     thumbnail |-> OrElse(d.thumbnail_url,
                          <<"h","t","t","p","s",":","/","/","w","w","w",".","i","n","s","t","a","g","r","a","m",".","c","o","m","/","p","/">> \o id \o <<"/","m","e","d","i","a","/","?","s","i","z","e","=","l">>),
     duration |-> formatDuration(30),
     fileSize |-> <<"1","5"," ","M","B">>,
     author |-> OrElse(d.author_name, <<"@">> \o Substring0(id, 8)),
     availableQualities |-> InstagramQualities]

\* The record of the instagram catch branch with the author handle of the primary
\* branch.
InstagramFallbackRecord_AtPrefix(id) ==
    [title |-> <<"I","n","s","t","a","g","r","a","m"," ","P","o","s","t"," ","(">> \o id \o <<")">>,
     thumbnail |-> <<"h","t","t","p","s",":","/","/","s","o","u","r","c","e",".","u","n","s","p","l","a","s","h",".","c","o","m","/","f","e","a","t","u","r","e","d","/","1","0","8","0","x","1","0","8","0","?","i","n","s","t","a","g","r","a","m","&","s","i","g","=">> \o id,
     duration |-> <<"0",":","3","0">>,
     fileSize |-> <<"1","5"," ","M","B">>,
     author |-> <<"@">> \o Substring0(id, 8),
     availableQualities |-> InstagramQualities]

InstagramFallbackRecord(id) ==
    [title |-> <<"I","n","s","t","a","g","r","a","m"," ","P","o","s","t"," ","(">> \o id \o <<")">>,
     thumbnail |-> <<"h","t","t","p","s",":","/","/","s","o","u","r","c","e",".","u","n","s","p","l","a","s","h",".","c","o","m","/","f","e","a","t","u","r","e","d","/","1","0","8","0","x","1","0","8","0","?","i","n","s","t","a","g","r","a","m","&","s","i","g","=">> \o id,
     duration |-> <<"0",":","3","0">>,
     fileSize |-> <<"1","5"," ","M","B">>,
     author |-> <<"@","u","s","e","r","_">> \o Substring0(id, 6),
     availableQualities |-> InstagramQualities]

TiktokPrimaryRecord(id, d) ==
    [title |-> OrElse(d.title, <<"T","i","k","T","o","k"," ","V","i","d","e","o"," ","(">> \o id \o <<")">>),
     thumbnail |-> OrElse(d.thumbnail_url,
                          <<"h","t","t","p","s",":","/","/","s","o","u","r","c","e",".","u","n","s","p","l","a","s","h",".","c","o","m","/","f","e","a","t","u","r","e","d","/","5","4","0","x","9","6","0","?","t","i","k","t","o","k","&","s","i","g","=">> \o id),
     duration |-> formatDuration(20),
     fileSize |-> <<"8"," ","M","B">>,
     author |-> OrElse(d.author_name, <<"@","u","s","e","r","_">> \o Substring0(id, 6)),
     availableQualities |-> TiktokQualities]

TiktokFallbackRecord(id) ==
    [title |-> <<"T","i","k","T","o","k"," ","V","i","d","e","o"," ","(">> \o id \o <<")">>,
     thumbnail |-> <<"h","t","t","p","s",":","/","/","s","o","u","r","c","e",".","u","n","s","p","l","a","s","h",".","c","o","m","/","f","e","a","t","u","r","e","d","/","5","4","0","x","9","6","0","?","t","i","k","t","o","k","&","s","i","g","=">> \o id,
     duration |-> <<"0",":","1","5">>,
     fileSize |-> <<"5"," ","M","B">>,
     author |-> <<"@","t","i","k","t","o","k","_">> \o Substring0(id, 6),
     availableQualities |-> TiktokQualities]

\* A catch branch whose title is numbered with the calls made so far.
FallbackRecord_Counted(id, p) ==
    LET r == CASE p = "youtube" -> YoutubeFallbackRecord(id)
               [] p = "instagram" -> InstagramFallbackRecord(id)
               [] p = "tiktok" -> TiktokFallbackRecord(id)
    IN [r EXCEPT !.title = r.title \o <<" ","#">> \o NumToChars(nCalls)]

\* The record of the catch branch of platform p.
FallbackRecord(id, p) ==
    CASE p = "youtube" -> YoutubeFallbackRecord(id)
      [] p = "instagram" -> InstagramFallbackRecord(id)
      [] p = "tiktok" -> TiktokFallbackRecord(id)

\* The record of the oEmbed branch of instagram and tiktok.
OembedRecord(id, p, d) ==
    CASE p = "instagram" -> InstagramPrimaryRecord(id, d)
      [] p = "tiktok" -> TiktokPrimaryRecord(id, d)

\* Every platform asking the youtube endpoint.
OembedEndpoint_YoutubeOnly(p) == "youtube_oembed"

OembedEndpoint(p) ==
    CASE p = "youtube" -> "youtube_oembed"
      [] p = "instagram" -> "instagram_oembed"
      [] p = "tiktok" -> "tiktok_oembed"

\* The mock revision of fetchVideoData: one fixed record per platform.
mockData ==
    [youtube |->
        [title |-> <<"A","m","a","z","i","n","g"," ","L","a","n","d","s","c","a","p","e","s"," ","i","n"," ","4","K"," ","-"," ","N","a","t","u","r","e"," ","D","o","c","u","m","e","n","t","a","r","y">>,
         thumbnail |-> <<"h","t","t","p","s",":","/","/","i","m","a","g","e","s",".","u","n","s","p","l","a","s","h",".","c","o","m","/","p","h","o","t","o","-","1","5","0","6","7","4","4","0","3","8","1","3","6","-","4","6","2","7","3","8","3","4","b","3","f","b","?","q","=","8","0","&","w","=","2","0","7","0","&","a","u","t","o","=","f","o","r","m","a","t","&","f","i","t","=","c","r","o","p">>,
         duration |-> <<"1","0",":","2","7">>,
         fileSize |-> <<"2","5","6"," ","M","B">>,
         author |-> <<"N","a","t","u","r","e"," ","C","h","a","n","n","e","l">>,
         availableQualities |-> <<"4k", "1080p", "720p", "480p", "360p", "audio">>],
     instagram |->
        [title |-> <<"S","u","n","s","e","t"," ","a","t"," ","t","h","e"," ","b","e","a","c","h"," ","#","b","e","a","u","t","i","f","u","l"," ","#","s","u","n","s","e","t">>,
         thumbnail |-> <<"h","t","t","p","s",":","/","/","i","m","a","g","e","s",".","u","n","s","p","l","a","s","h",".","c","o","m","/","p","h","o","t","o","-","1","5","0","7","5","2","5","4","2","8","0","3","4","-","b","7","2","3","c","f","9","6","1","d","3","e","?","q","=","8","0","&","w","=","2","0","7","3","&","a","u","t","o","=","f","o","r","m","a","t","&","f","i","t","=","c","r","o","p">>,
         duration |-> <<"0",":","5","8">>,
         fileSize |-> <<"4","5"," ","M","B">>,
         author |-> <<"@","t","r","a","v","e","l","g","r","a","m">>,
         availableQualities |-> <<"1080p", "720p", "480p">>],
     tiktok |->
        [title |-> <<"L","e","a","r","n"," ","t","h","i","s"," ","e","a","s","y"," ","d","a","n","c","e"," ","m","o","v","e","!"," ","#","d","a","n","c","e"," ","#","t","u","t","o","r","i","a","l">>,
         thumbnail |-> <<"h","t","t","p","s",":","/","/","i","m","a","g","e","s",".","u","n","s","p","l","a","s","h",".","c","o","m","/","p","h","o","t","o","-","1","5","4","7","1","5","3","7","6","0","-","1","8","f","c","8","6","3","2","4","4","9","8","?","q","=","8","0","&","w","=","2","0","7","4","&","a","u","t","o","=","f","o","r","m","a","t","&","f","i","t","=","c","r","o","p">>,
         duration |-> <<"0",":","1","5">>,
         fileSize |-> <<"1","2"," ","M","B">>,
         author |-> <<"@","d","a","n","c","e","p","r","o">>,
         availableQualities |-> <<"720p", "480p", "360p">>]]

(***************************************************************************)
(* The page: the Index component with its UrlInput, PlatformSelector,      *)
(* DownloadOptions and DownloadButton.  A handler runs to its first await  *)
(* in one step; the continuation of an await is a step of its own.         *)
(***************************************************************************)
\* useState<any>(null)
NoVideoData == [isNull |-> TRUE, record |-> NoRecord]

VideoDataOf(r) == [isNull |-> FALSE, record |-> r]

NotResolved == [url |-> <<>>, platform |-> "none"]

\* The first render of the page.
Mounted ==
    /\ index = [platform |-> "youtube", url |-> <<>>, loading |-> FALSE,
                downloading |-> FALSE, videoData |-> NoVideoData,
                selectedQuality |-> "1080p"]
    /\ urlInput = [url |-> <<>>, error |-> Null]
    /\ pending = <<>>
    /\ resolvedFor = NotResolved

(***************************************************************************)
(* Spec: calls of fetchVideoData (API revision and mock revision) and of   *)
(* downloadVideo (redirect revision), one at a time, each suspended at its *)
(* awaits while the network decides what to answer.                        *)
(***************************************************************************)
\* The platform tags a caller may pass at run time: the enumeration, and a value
\* outside it.
CallPlatforms == Platform \cup {"vimeo"}

Init ==
    /\ op = "none"
    /\ pc = "idle"
    /\ url = <<>>
    /\ platform = "youtube"
    /\ nCalls = 0
    /\ InitCommon
    /\ Mounted

\* A new call starts when no call is running.
StartCall(newOp, u, p, q) ==
    /\ pc = "idle"
    /\ nCalls < MaxCalls
    /\ nCalls' = nCalls + 1
    /\ op' = newOp
    /\ url' = u
    /\ platform' = p
    /\ quality' = q
    /\ prev' = prev
    /\ UNCHANGED pageVars

\* The call settles.
Settle(o, via) ==
    /\ outcome' = o
    /\ path' = via
    /\ pc' = "done"

\* Without the inner try/catch the error reaches the outer catch, which throws the
\* wrapper error.
CatchFallback_Rethrow == Settle(Rejected("FailedToRetrieve"), "throw")

\* catch (oembedError / instaError / tiktokError): return the fallback record.
CatchFallback == Settle(Resolved(FallbackRecord(videoId.v, platform)), "fallback")

\* fetchVideoData, up to its first await.
FetchVideoData(u, p) ==
    /\ StartCall("fetch", u, p, "none")
    /\ UNCHANGED objectUrls
    /\ LET id == extractVideoId(u, p)
       IN /\ videoId' = id
          /\ data' = NoData
          /\ clicks' = <<>>
          /\ toasts' = <<>>
          /\ IF InvalidFormatThrown(id)
             THEN /\ Settle(Rejected("InvalidFormat"), "throw")
                  /\ fetches' = <<>>
             ELSE IF p \in Platform
             THEN /\ fetches' = <<OembedEndpoint(p)>>
                  /\ pc' = "await_oembed"
                  /\ outcome' = Pending
                  /\ path' = "none"
             ELSE \* default: throw, caught by the outer catch, which throws the wrapper
                  /\ Settle(Rejected("FailedToRetrieve"), "throw")
                  /\ fetches' = <<>>

\* await fetch(oEmbed) settles: it throws, or answers with response.ok false or true.
OembedResponse(r) ==
    /\ op = "fetch"
    /\ pc = "await_oembed"
    /\ IF r = "ok"
       THEN /\ pc' = "await_oembed_json"
            /\ UNCHANGED <<outcome, path>>
       ELSE CatchFallback
    /\ UNCHANGED <<op, url, platform, quality, videoId, data, fetches, clicks, toasts,
                   prev, nCalls, pageVars, objectUrls>>

\* await response.json() throws.
OembedJsonThrows ==
    /\ op = "fetch"
    /\ pc = "await_oembed_json"
    /\ CatchFallback
    /\ UNCHANGED <<op, url, platform, quality, videoId, data, fetches, clicks, toasts,
                   prev, nCalls, pageVars, objectUrls>>

\* await response.json() yields the payload d.  youtube goes on to the Invidious
\* request; instagram and tiktok return the record (reading a field of null throws
\* into the catch).
OembedJson(d) ==
    /\ op = "fetch"
    /\ pc = "await_oembed_json"
    /\ data' = d
    /\ IF platform = "youtube"
       THEN /\ fetches' = Append(fetches, "invidious")
            /\ pc' = "await_invidious"
            /\ UNCHANGED <<outcome, path>>
       ELSE /\ fetches' = fetches
            /\ IF d.isNull
               THEN CatchFallback
               ELSE Settle(Resolved(OembedRecord(videoId.v, platform, d)), "primary")
    /\ UNCHANGED <<op, url, platform, quality, videoId, clicks, toasts, prev, nCalls, pageVars, objectUrls>>

\* The secondary request, with the fixed defaults of the catch branch as estimates
\* of an unsuccessful answer.
InvidiousResponse_FixedEstimates(r) ==
    /\ op = "fetch"
    /\ pc = "await_invidious"
    /\ CASE r = "ok" ->
              /\ pc' = "await_invidious_json"
              /\ UNCHANGED <<outcome, path>>
         [] r = "not_ok" ->
              IF data.isNull
              THEN CatchFallback
              ELSE Settle(Resolved(YoutubePrimaryRecord(videoId.v, data, 180, 25)),
                          "secondary_failed")
         [] r = "throws" -> CatchFallback
    /\ UNCHANGED <<op, url, platform, quality, videoId, data, fetches, clicks, toasts,
                   prev, nCalls, pageVars, objectUrls>>

\* await fetch(invidious) settles.
InvidiousResponse(r) ==
    /\ op = "fetch"
    /\ pc = "await_invidious"
    /\ CASE r = "ok" ->
              /\ pc' = "await_invidious_json"
              /\ UNCHANGED <<outcome, path>>
         [] r = "not_ok" ->
              \* durationSecs = 60 + videoId.length * 5; estimatedSizeMB = 15 + videoId.length * 2
              IF data.isNull
              THEN CatchFallback
              ELSE Settle(Resolved(YoutubePrimaryRecord(videoId.v, data,
                                                        60 + Len(videoId.v) * 5,
                                                        15 + Len(videoId.v) * 2)),
                          "secondary_failed")
         [] r = "throws" -> CatchFallback
    /\ UNCHANGED <<op, url, platform, quality, videoId, data, fetches, clicks, toasts,
                   prev, nCalls, pageVars, objectUrls>>

\* await invidResponse.json() throws, or yields null (reading lengthSeconds throws).
InvidiousJsonThrows ==
    /\ op = "fetch"
    /\ pc = "await_invidious_json"
    /\ CatchFallback
    /\ UNCHANGED <<op, url, platform, quality, videoId, data, fetches, clicks, toasts,
                   prev, nCalls, pageVars, objectUrls>>

\* await invidResponse.json() yields an object with lengthSeconds = len.
InvidiousJson(len) ==
    /\ op = "fetch"
    /\ pc = "await_invidious_json"
    /\ LET durationSecs == IF len.present /\ len.n # 0 THEN len.n ELSE 0
           estimatedSizeMB == RoundDiv(durationSecs * 10, 60)
       IN IF data.isNull
          THEN CatchFallback
          ELSE Settle(Resolved(YoutubePrimaryRecord(videoId.v, data, durationSecs,
                                                    estimatedSizeMB)),
                      "primary")
    /\ UNCHANGED <<op, url, platform, quality, videoId, data, fetches, clicks, toasts,
                   prev, nCalls, pageVars, objectUrls>>

\* The mock revision of fetchVideoData, up to its await of the timer.
MockFetchVideoData(u, p) ==
    /\ StartCall("mock", u, p, "none")
    /\ UNCHANGED objectUrls
    /\ videoId' = Null
    /\ data' = NoData
    /\ fetches' = <<>>
    /\ clicks' = <<>>
    /\ toasts' = <<>>
    /\ outcome' = Pending
    /\ path' = "none"
    /\ pc' = "await_timer"

\* The timer fires: return mockData[platform] (undefined for a tag outside the table).
MockTimer ==
    /\ op = "mock"
    /\ pc = "await_timer"
    /\ IF platform \in Platform
       THEN Settle(Resolved(mockData[platform]), "mock")
       ELSE Settle(ResolvedVoid, "mock")
    /\ UNCHANGED <<op, url, platform, quality, videoId, data, fetches, clicks, toasts,
                   prev, nCalls, pageVars, objectUrls>>

(***************************************************************************)
(* downloadVideo, redirect revision.                                       *)
(***************************************************************************)
QualityName(q) ==
    CASE q = "4k" -> <<"4","k">>
      [] q = "1080p" -> <<"1","0","8","0","p">>
      [] q = "720p" -> <<"7","2","0","p">>
      [] q = "480p" -> <<"4","8","0","p">>
      [] q = "360p" -> <<"3","6","0","p">>
      [] q = "audio" -> <<"a","u","d","i","o">>

\* const formatCode = quality === '4k' ? '2160' : ... : 'audio'
FormatCode(q) ==
    CASE q = "4k" -> <<"2","1","6","0">>
      [] q = "1080p" -> <<"1","0","8","0">>
      [] q = "720p" -> <<"7","2","0">>
      [] q = "480p" -> <<"4","8","0">>
      [] q = "360p" -> <<"3","6","0">>
      [] OTHER -> <<"a","u","d","i","o">>

\* fileName = `${prefix}_${videoId}_${quality}.mp4`
Mp4Name(prefix, id, q) == prefix \o <<"_">> \o id \o <<"_">> \o QualityName(q) \o <<".","m","p","4">>

YoutubeFileName(id, q) ==
    IF q = "audio" THEN <<"y","o","u","t","u","b","e","_">> \o id \o <<".","m","p","3">> ELSE Mp4Name(<<"y","o","u","t","u","b","e">>, id, q)

\* a.href = downloadUrl; a.download = fileName; appendChild; a.click(); removeChild;
\* toast.success(...); return
ClickAndReturn(href, fileName, via) ==
    /\ clicks' = Append(clicks, [href |-> href, download |-> fileName])
    /\ toasts' = Append(toasts, "success")
    /\ Settle(ResolvedVoid, via)

\* downloadVideo, up to its first await.
DownloadVideo(u, p, q) ==
    /\ StartCall("download", u, p, q)
    /\ UNCHANGED objectUrls
    /\ LET id == extractVideoId(u, p)
       IN /\ videoId' = id
          /\ data' = NoData
          /\ IF InvalidFormatThrown(id)
             THEN /\ Settle(Rejected("InvalidFormat"), "throw")
                  /\ fetches' = <<>>
                  /\ clicks' = <<>>
                  /\ toasts' = <<>>
             ELSE CASE p = "youtube" ->
                       /\ fetches' = <<>>
                       /\ clicks' = <<[href |-> <<"y","t","d","l","?","f","o","r","m","a","t","=">> \o FormatCode(q),
                                       download |-> YoutubeFileName(id.v, q)]>>
                       /\ toasts' = <<"success">>
                       /\ Settle(ResolvedVoid, "youtube")
                    [] p = "instagram" ->
                       /\ fetches' = <<"instagram_proxy">>
                       /\ clicks' = <<>>
                       /\ toasts' = <<>>
                       /\ pc' = "await_instagram_proxy"
                       /\ outcome' = Pending
                       /\ path' = "none"
                    [] p = "tiktok" ->
                       /\ fetches' = <<"tiktok_proxy">>
                       /\ clicks' = <<>>
                       /\ toasts' = <<>>
                       /\ pc' = "await_tiktok_proxy"
                       /\ outcome' = Pending
                       /\ path' = "none"
                    [] OTHER ->
                       \* default: throw; the outer catch raises a toast and rethrows
                       /\ fetches' = <<>>
                       /\ clicks' = <<>>
                       /\ toasts' = <<"error">>
                       /\ Settle(Rejected("UnsupportedPlatform"), "throw")

\* catch (err) of the instagram case: the sample video.
InstagramSample ==
    ClickAndReturn(<<"s","a","m","p","l","e","/","F","o","r","B","i","g","g","e","r","B","l","a","z","e","s",".","m","p","4">>,
                   Mp4Name(<<"i","n","s","t","a","g","r","a","m">>, videoId.v, quality), "instagram_sample")

\* catch (err) of the tiktok case: the sample video.
TiktokSample ==
    ClickAndReturn(<<"s","a","m","p","l","e","/","E","l","e","p","h","a","n","t","s","D","r","e","a","m",".","m","p","4">>,
                   Mp4Name(<<"t","i","k","t","o","k">>, videoId.v, quality), "tiktok_sample")

\* case 'tiktok': the request to the tiktok proxy is issued.
EnterTiktokCase ==
    /\ fetches' = Append(fetches, "tiktok_proxy")
    /\ pc' = "await_tiktok_proxy"
    /\ UNCHANGED <<outcome, path, clicks, toasts>>

\* await fetch(instaProxy) settles (its status is not looked at).
InstagramProxyResponse(r) ==
    /\ op = "download"
    /\ pc = "await_instagram_proxy"
    /\ IF r = "throws"
       THEN InstagramSample
       ELSE /\ pc' = "await_instagram_json"
            /\ UNCHANGED <<outcome, path, clicks, toasts>>
    /\ UNCHANGED <<op, url, platform, quality, videoId, data, fetches, prev, nCalls, pageVars, objectUrls>>

\* await response.json() settles: it throws, yields null (reading data.success
\* throws), an object with success and media.video_url, or an object without.  In the
\* last case the try block ends without return and control falls through to
\* case 'tiktok'.
InstagramProxyJson(r) ==
    /\ op = "download"
    /\ pc = "await_instagram_json"
    /\ CASE r \in {"throws", "null"} ->
              /\ InstagramSample
              /\ UNCHANGED fetches
         [] r = "video" ->
              /\ ClickAndReturn(<<"d","a","t","a",".","m","e","d","i","a",".","v","i","d","e","o","_","u","r","l">>,
                                Mp4Name(<<"i","n","s","t","a","g","r","a","m">>, videoId.v, quality), "instagram")
              /\ UNCHANGED fetches
         [] r = "no_video" -> EnterTiktokCase
    /\ UNCHANGED <<op, url, platform, quality, videoId, data, prev, nCalls, pageVars, objectUrls>>

\* await fetch(tiktokProxy) settles.
TiktokProxyResponse(r) ==
    /\ op = "download"
    /\ pc = "await_tiktok_proxy"
    /\ IF r = "throws"
       THEN TiktokSample
       ELSE /\ pc' = "await_tiktok_json"
            /\ UNCHANGED <<outcome, path, clicks, toasts>>
    /\ UNCHANGED <<op, url, platform, quality, videoId, data, fetches, prev, nCalls, pageVars, objectUrls>>

\* await response.json() settles.  Without data.video[0] the try block ends without
\* return and control falls through to default: throw 'Unsupported platform', which
\* the outer catch reports in a toast and rethrows.
TiktokProxyJson(r) ==
    /\ op = "download"
    /\ pc = "await_tiktok_json"
    /\ CASE r \in {"throws", "null"} -> TiktokSample
         [] r = "video" ->
              ClickAndReturn(<<"d","a","t","a",".","v","i","d","e","o","[","0","]">>,
                             Mp4Name(<<"t","i","k","t","o","k">>, videoId.v, quality), "tiktok")
         [] r = "no_video" ->
              /\ toasts' = Append(toasts, "error")
              /\ clicks' = clicks
              /\ Settle(Rejected("UnsupportedPlatform"), "throw")
    /\ UNCHANGED <<op, url, platform, quality, videoId, data, fetches, prev, nCalls, pageVars, objectUrls>>

(***************************************************************************)
(* downloadVideo, blob revision.  The function awaits nothing: a call runs *)
(* from its first statement to its return or throw in one step.  A         *)
(* statement that calls into the browser may throw.                        *)
(***************************************************************************)
\* The statements of the try block that call into the browser, in program order.
BlobStatements ==
    <<"createObjectURL", "appendChild", "click", "removeChild", "revokeObjectURL">>

\* The position of a statement in the try block.
StatementIndex(st) == CHOOSE i \in 1..Len(BlobStatements) : BlobStatements[i] = st

\* Where a call may be interrupted: nowhere, or at one of the statements.
BlobThrowers == {"none", "createObjectURL", "appendChild", "click", "removeChild"}

\* The statement st has completed in a run in which thrower throws.
Completed(st, thrower) ==
    thrower = "none" \/ StatementIndex(st) < StatementIndex(thrower)

\* const fileName = `${platform}_${videoId}_${quality}.${extension}`
BlobFileName(p, id, q) ==
    PlatformName(p) \o <<"_">> \o id \o <<"_">> \o QualityName(q) \o <<".">> \o
        (IF q = "audio" THEN <<"m","p","3">> ELSE <<"m","p","4">>)

\* The handle URL.createObjectURL returns.
BlobUrl == <<"b","l","o","b",":","1">>

\* downloadVideo, blob revision: the whole call.
DownloadVideoBlob(u, p, q, thrower) ==
    /\ StartCall("blob", u, p, q)
    /\ LET id == extractVideoId(u, p)
       IN /\ videoId' = id
          /\ data' = NoData
          /\ fetches' = <<>>
          /\ toasts' = <<>>
          /\ IF InvalidFormatThrown(id)
             THEN /\ clicks' = <<>>
                  /\ objectUrls' = <<>>
                  /\ Settle(Rejected("InvalidFormat"), "throw")
             ELSE /\ clicks' = IF Completed("click", thrower)
                               THEN <<[href |-> BlobUrl, download |-> BlobFileName(p, id.v, q)]>>
                               ELSE <<>>
                  \* the URL is live from createObjectURL until revokeObjectURL, the
                  \* last statement but one of the try block, has run
                  /\ objectUrls' = IF Completed("createObjectURL", thrower)
                                      /\ ~Completed("revokeObjectURL", thrower)
                                   THEN <<BlobUrl>>
                                   ELSE <<>>
                  /\ IF thrower = "none"
                     THEN Settle(ResolvedVoid, "blob")
                     ELSE Settle(Rejected("FailedToDownload"), "catch")

\* The awaiting caller receives the settled value and the call's frame is gone.  A
\* record returned from a catch branch of fetchVideoData is remembered in prev.
Return ==
    /\ pc = "done"
    /\ prev' = IF op = "fetch" /\ path = "fallback"
               THEN [present |-> TRUE, videoId |-> videoId.v, platform |-> platform,
                     record |-> outcome.record]
               ELSE prev
    /\ op' = "none"
    /\ pc' = "idle"
    /\ url' = <<>>
    /\ platform' = "youtube"
    /\ quality' = "none"
    /\ videoId' = Null
    /\ data' = NoData
    /\ outcome' = Pending
    /\ path' = "none"
    /\ fetches' = <<>>
    /\ clicks' = <<>>
    /\ toasts' = <<>>
    /\ objectUrls' = <<>>
    /\ UNCHANGED <<nCalls, pageVars>>

FetchOutcomes == {"throws", "not_ok", "ok"}

ProxyJsonOutcomes == {"throws", "null", "video", "no_video"}

Next ==
    \/ \E u \in CallUrls, p \in CallPlatforms : FetchVideoData(u, p)
    \/ \E r \in FetchOutcomes : OembedResponse(r)
    \/ OembedJsonThrows
    \/ \E d \in OembedPayloads : OembedJson(d)
    \/ \E r \in FetchOutcomes : InvidiousResponse(r)
    \/ InvidiousJsonThrows
    \/ \E len \in LengthSeconds : InvidiousJson(len)
    \/ \E u \in CallUrls, p \in CallPlatforms : MockFetchVideoData(u, p)
    \/ MockTimer
    \/ \E u \in CallUrls, p \in CallPlatforms, q \in SeqToSet(Quality) : DownloadVideo(u, p, q)
    \/ \E r \in {"throws", "ok"} : InstagramProxyResponse(r)
    \/ \E r \in ProxyJsonOutcomes : InstagramProxyJson(r)
    \/ \E r \in {"throws", "ok"} : TiktokProxyResponse(r)
    \/ \E r \in ProxyJsonOutcomes : TiktokProxyJson(r)
    \/ \E u \in CallUrls, p \in CallPlatforms, q \in SeqToSet(Quality), thrower \in BlobThrowers :
          DownloadVideoBlob(u, p, q, thrower)
    \/ Return

Spec == Init /\ [][Next]_vars

(***************************************************************************)
(* SpecExtract: extractVideoId applied to every input.                     *)
(***************************************************************************)
InitExtract ==
    /\ op = "extract"
    /\ pc = "start"
    /\ url \in Urls
    /\ platform \in Platform
    /\ nCalls = 0
    /\ InitCommon
    /\ Mounted

ExtractCall ==
    /\ op = "extract"
    /\ pc = "start"
    /\ videoId' = extractVideoId(url, platform)
    /\ pc' = "done"
    /\ nCalls' = nCalls + 1
    /\ UNCHANGED <<op, url, platform, quality, data, outcome, path, fetches, clicks,
                   toasts, prev, pageVars, objectUrls>>

NextExtract == ExtractCall

SpecExtract == InitExtract /\ [][NextExtract]_vars

(***************************************************************************)
(* SpecNetwork: the calls run on a network that may leave a request        *)
(* unanswered.  fetch() is called without a timeout or an AbortSignal, so  *)
(* the promise of an unanswered request never settles and the call stays   *)
(* suspended at its await: no statement of the call runs again.            *)
(***************************************************************************)
RequestNeverAnswered ==
    /\ op = "fetch"
    /\ pc \in {"await_oembed", "await_invidious"}
    /\ pc' = "suspended"
    /\ UNCHANGED <<op, url, platform, quality, videoId, data, outcome, path, fetches,
                   clicks, toasts, prev, nCalls, pageVars, objectUrls>>

NextNetwork ==
    \/ Next
    \/ RequestNeverAnswered

\* Every continuation that can run does run (the event loop), and every request that
\* is going to be answered is answered.
SpecNetwork == Init /\ [][NextNetwork]_vars /\ WF_vars(NextNetwork)

(***************************************************************************)
(* SpecPage: the user's events on the page and the settling of the calls   *)
(* the page is waiting for, in any order.  The paste button of UrlInput,   *)
(* which writes the url and error of UrlInput only, is left out.           *)
(***************************************************************************)
MaxPending == 3

Whitespace == {" ", "\t", "\n", "\r"}

LineTerminators == {"\n", "\r"}

\* !input.trim()
IsBlank(s) == \A i \in 1..Len(s) : s[i] \in Whitespace

ToLower(s) == [i \in 1..Len(s) |-> ToLowerChar(s[i])]

ToUpperChar(c) ==
    IF \E i \in 1..Len(LowerAlpha) : LowerAlpha[i] = c
    THEN Upper[CHOOSE i \in 1..Len(LowerAlpha) : LowerAlpha[i] = c]
    ELSE c

\* platform.charAt(0).toUpperCase() + platform.slice(1)
Capitalized(s) == <<ToUpperChar(Head(s))>> \o Tail(s)

\* The host alternatives of the three patterns of validateUrl.
PatternHosts(p) ==
    CASE p = "youtube" -> {<<"y","o","u","t","u","b","e",".","c","o","m">>, <<"y","o","u","t","u",".","b","e">>}
      [] p = "instagram" -> {<<"i","n","s","t","a","g","r","a","m",".","c","o","m">>}
      [] p = "tiktok" -> {<<"t","i","k","t","o","k",".","c","o","m">>}

\* patterns[platform].test(input), the pattern being
\* /^(https?:\/\/)?(www\.)?(<hosts>)\/.+/i
PatternTest(p, input) ==
    LET s == ToLower(input)
    IN \E scheme \in {<<>>, <<"h","t","t","p",":","/","/">>, <<"h","t","t","p","s",":","/","/">>}, w \in {<<>>, <<"w","w","w",".">>},
          host \in PatternHosts(p) :
           LET prefix == scheme \o w \o host \o <<"/">>
           IN /\ MatchAt(s, 1, prefix)
              /\ Len(s) > Len(prefix)
              /\ s[Len(prefix) + 1] \notin LineTerminators

\* validateUrl: the value it returns and the value it gives to setError.
validateUrl(input, p) ==
    IF IsBlank(input)
    THEN [ok |-> FALSE, error |-> Str(<<"P","l","e","a","s","e"," ","e","n","t","e","r"," ","a"," ","U","R","L">>)]
    ELSE IF ~PatternTest(p, input)
    THEN [ok |-> FALSE,
          error |-> Str(<<"I","n","v","a","l","i","d"," ">> \o Capitalized(PlatformName(p)) \o <<" ","U","R","L">>)]
    ELSE [ok |-> TRUE, error |-> Null]

\* Every value a call of fetchVideoData(u, p) can settle with, the oEmbed payload
\* drawn from payloads and lengthSeconds from lengths.
FetchVideoDataResults(u, p, payloads, lengths) ==
    LET id == extractVideoId(u, p)
        answered == payloads \ {NoData}
    IN IF InvalidFormatThrown(id) THEN {Rejected("InvalidFormat")}
       ELSE IF p \notin Platform THEN {Rejected("FailedToRetrieve")}
       ELSE {Resolved(FallbackRecord(id.v, p))} \cup
            IF p = "youtube"
            THEN {Resolved(YoutubePrimaryRecord(id.v, d,
                               IF len.present /\ len.n # 0 THEN len.n ELSE 0,
                               RoundDiv((IF len.present /\ len.n # 0 THEN len.n ELSE 0) * 10, 60))) :
                      d \in answered, len \in lengths}
                 \cup
                 {Resolved(YoutubePrimaryRecord(id.v, d, 60 + Len(id.v) * 5,
                                                15 + Len(id.v) * 2)) : d \in answered}
            ELSE {Resolved(OembedRecord(id.v, p, d)) : d \in answered}

\* What the user types.
PageTexts ==
    {<<>>,
     <<"n","o","t"," ","a"," ","u","r","l">>,
     <<"y","o","u","t","u",".","b","e","/","7">>,
     <<"h","t","t","p","s",":","/","/","w","w","w",".","y","o","u","t","u","b","e",".","c","o","m","/","f","e","e","d">>,
     <<"h","t","t","p","s",":","/","/","w","w","w",".","i","n","s","t","a","g","r","a","m",".","c","o","m","/","p","/","a","b","c","1","2","3","/">>,
     <<"t","i","k","t","o","k",".","c","o","m","/","v","/","4","2">>}

\* What the network answers to the calls of the page.
PagePayloads ==
    {NoData,
     [isNull |-> FALSE, title |-> Str(<<"N","e","v","e","r"," ","G","o","n","n","a"," ","G","i","v","e"," ","Y","o","u"," ","U","p">>),
      thumbnail_url |-> Null, author_name |-> Str(<<"R","i","c","k"," ","A","s","t","l","e","y">>)]}

PageLengths == {[present |-> TRUE, n |-> 212]}

RemoveAt(s, i) == SubSeq(s, 1, i - 1) \o SubSeq(s, i + 1, Len(s))

\* Index.handleUrlChange(newUrl), up to its await of fetchVideoData(newUrl, platform).
Index_handleUrlChange(newUrl) ==
    /\ Len(pending) < MaxPending
    /\ index' = [index EXCEPT !.url = newUrl, !.loading = TRUE, !.videoData = NoVideoData]
    /\ resolvedFor' = NotResolved
    /\ pending' = Append(pending, [fn |-> "fetchVideoData", url |-> newUrl,
                                   platform |-> index.platform, quality |-> "none"])

\* UrlInput.handleUrlChange: the user edits the input (enabled while not loading).
UrlInput_handleUrlChange(newUrl) ==
    /\ ~index.loading
    /\ urlInput' = [url |-> newUrl,
                    error |-> IF IsBlank(newUrl) THEN Null
                              ELSE IF Truthy(urlInput.error)
                              THEN validateUrl(newUrl, index.platform).error
                              ELSE urlInput.error]
    /\ UNCHANGED <<index, pending, resolvedFor, libVars>>

\* UrlInput.handleSubmit with the input left enabled while loading.
handleSubmit_WhileLoading ==
    /\ LET v == validateUrl(urlInput.url, index.platform)
       IN /\ urlInput' = [urlInput EXCEPT !.error = v.error]
          /\ IF v.ok
             THEN Index_handleUrlChange(urlInput.url)
             ELSE UNCHANGED <<index, pending, resolvedFor>>
    /\ UNCHANGED libVars

\* UrlInput.handleSubmit: Enter in the input (enabled while not loading).
handleSubmit ==
    /\ ~index.loading
    /\ LET v == validateUrl(urlInput.url, index.platform)
       IN /\ urlInput' = [urlInput EXCEPT !.error = v.error]
          /\ IF v.ok
             THEN Index_handleUrlChange(urlInput.url)
             ELSE UNCHANGED <<index, pending, resolvedFor>>
    /\ UNCHANGED libVars

\* UrlInput.clearUrl: the clear button (shown while url is not empty).
clearUrl ==
    /\ ~index.loading
    /\ urlInput.url # <<>>
    /\ urlInput' = [url |-> <<>>, error |-> Null]
    /\ UNCHANGED <<index, pending, resolvedFor, libVars>>

\* Index.handlePlatformChange that leaves the url of the platform left behind.
handlePlatformChange_KeepUrl(newPlatform) ==
    /\ IF index.platform # newPlatform
       THEN /\ index' = [index EXCEPT !.platform = newPlatform,
                                      !.videoData = NoVideoData]
            /\ resolvedFor' = NotResolved
            /\ urlInput' = [url |-> <<>>, error |-> Null]
       ELSE UNCHANGED <<index, resolvedFor, urlInput>>
    /\ UNCHANGED <<pending, libVars>>

\* Index.handlePlatformChange that keeps the record of the platform left behind.
handlePlatformChange_KeepRecord(newPlatform) ==
    /\ IF index.platform # newPlatform
       THEN /\ index' = [index EXCEPT !.platform = newPlatform, !.url = <<>>]
            /\ urlInput' = [url |-> <<>>, error |-> Null]
            /\ UNCHANGED resolvedFor
       ELSE UNCHANGED <<index, resolvedFor, urlInput>>
    /\ UNCHANGED <<pending, libVars>>

\* Index.handlePlatformChange, and the effect of UrlInput that resets its url and
\* error when the platform prop changes.  The selector is never disabled.
handlePlatformChange(newPlatform) ==
    /\ IF index.platform # newPlatform
       THEN /\ index' = [index EXCEPT !.platform = newPlatform,
                                      !.videoData = NoVideoData,
                                      !.url = <<>>]
            /\ resolvedFor' = NotResolved
            /\ urlInput' = [url |-> <<>>, error |-> Null]
       ELSE UNCHANGED <<index, resolvedFor, urlInput>>
    /\ UNCHANGED <<pending, libVars>>

\* The continuation leaving the selected tier as it was.
DefaultQuality_KeepCurrent(record, current) == current

\* if (data.availableQualities.length > 0) setSelectedQuality(includes('1080p') ?
\* '1080p' : data.availableQualities[0])
DefaultQuality(record, current) ==
    IF Len(record.availableQualities) > 0
    THEN IF "1080p" \in SeqToSet(record.availableQualities)
         THEN "1080p"
         ELSE record.availableQualities[1]
    ELSE current

\* The continuation with setLoading(false) as the last statement of the try block.
Continue_handleUrlChange_NoFinally(call, o) ==
    IF o.kind = "resolved"
    THEN /\ index' = [index EXCEPT !.videoData = VideoDataOf(o.record),
                                   !.selectedQuality = DefaultQuality(o.record, @),
                                   !.loading = FALSE]
         /\ resolvedFor' = [url |-> call.url, platform |-> call.platform]
    ELSE UNCHANGED <<index, resolvedFor>>

\* setVideoData(data); setSelectedQuality(...); toast.success(...) when the call
\* resolved, toast.error(...) when it rejected; finally { setLoading(false) }
Continue_handleUrlChange(call, o) ==
    IF o.kind = "resolved"
    THEN /\ index' = [index EXCEPT !.videoData = VideoDataOf(o.record),
                                   !.selectedQuality = DefaultQuality(o.record, @),
                                   !.loading = FALSE]
         /\ resolvedFor' = [url |-> call.url, platform |-> call.platform]
    ELSE /\ index' = [index EXCEPT !.loading = FALSE]
         /\ UNCHANGED resolvedFor

\* The continuation of Index.handleUrlChange: the call of fetchVideoData it awaits
\* settles with one of the values the call can settle with.
FetchVideoDataSettles(i) ==
    /\ i \in 1..Len(pending)
    /\ pending[i].fn = "fetchVideoData"
    /\ pending' = RemoveAt(pending, i)
    /\ \E o \in FetchVideoDataResults(pending[i].url, pending[i].platform,
                                       PagePayloads, PageLengths) :
           Continue_handleUrlChange(pending[i], o)
    /\ UNCHANGED <<urlInput, libVars>>

\* Index.handleQualityChange: a button of DownloadOptions, which shows the tiers of
\* qualityOptions that videoData.availableQualities includes.
handleQualityChange(q) ==
    /\ ~index.videoData.isNull
    /\ q \in SeqToSet(Quality) \cap SeqToSet(index.videoData.record.availableQualities)
    /\ index' = [index EXCEPT !.selectedQuality = q]
    /\ UNCHANGED <<urlInput, pending, resolvedFor, libVars>>

\* Index.handleDownload, up to its await of downloadVideo: the DownloadButton
\* (disabled={isDisabled || isLoading}, isDisabled={!videoData || loading},
\* isLoading={downloading}).
handleDownload ==
    /\ ~(index.videoData.isNull \/ index.loading)
    /\ ~index.downloading
    /\ IF index.url = <<>> \/ index.videoData.isNull
       THEN UNCHANGED <<index, pending>>
       ELSE /\ Len(pending) < MaxPending
            /\ index' = [index EXCEPT !.downloading = TRUE]
            /\ pending' = Append(pending, [fn |-> "downloadVideo", url |-> index.url,
                                           platform |-> index.platform,
                                           quality |-> index.selectedQuality])
    /\ UNCHANGED <<urlInput, resolvedFor, libVars>>

\* The continuation of Index.handleDownload: downloadVideo settled, with or without
\* an error (finally { setDownloading(false) }).
DownloadVideoSettles(i) ==
    /\ i \in 1..Len(pending)
    /\ pending[i].fn = "downloadVideo"
    /\ pending' = RemoveAt(pending, i)
    /\ index' = [index EXCEPT !.downloading = FALSE]
    /\ UNCHANGED <<urlInput, resolvedFor, libVars>>

NextPage ==
    \/ \E text \in PageTexts : UrlInput_handleUrlChange(text)
    \/ handleSubmit
    \/ clearUrl
    \/ \E p \in Platform : handlePlatformChange(p)
    \/ \E i \in 1..MaxPending : FetchVideoDataSettles(i)
    \/ \E q \in SeqToSet(Quality) : handleQualityChange(q)
    \/ handleDownload
    \/ \E i \in 1..MaxPending : DownloadVideoSettles(i)

SpecPage == Init /\ [][NextPage]_vars

(***************************************************************************)
(* Properties.                                                             *)
(***************************************************************************)
\* A call of fetchVideoData (API revision) has settled.
FetchDone == op = "fetch" /\ pc = "done"

\* A call of fetchVideoData (either revision) has returned a record for a platform of
\* the enumeration.
RecordReturned ==
    /\ op \in {"fetch", "mock"}
    /\ pc = "done"
    /\ outcome.kind = "resolved"
    /\ platform \in Platform

\* C1: for a supported platform and a URL with an extractable identifier,
\* fetchVideoData never rejects, whatever the network answers on the primary or the
\* secondary request: once settled it has resolved with a record; the wrapper error
\* 'Failed to retrieve video information' is never surfaced for a supported platform,
\* whose only error is the invalid-format error.
FetchNeverRejects ==
    (op = "fetch" /\ platform \in Platform) =>
        /\ outcome.error \in {"none", "InvalidFormat"}
        /\ Truthy(videoId) => outcome.kind # "rejected"
        /\ (Truthy(videoId) /\ pc = "done") =>
               /\ outcome.kind = "resolved"
               /\ outcome.record # NoRecord

\* C1 witness: the secondary request was issued and failed by an exception, and the
\* call resolved with a record.
FetchNeverRejectsWitness ==
    /\ FetchDone
    /\ platform = "youtube"
    /\ fetches = <<"youtube_oembed", "invidious">>
    /\ path = "fallback"
    /\ outcome.kind = "resolved"
    /\ outcome.record.title # <<>>

InvalidFormatBeforeNetwork ==
    (op \in {"fetch", "download"} /\ ~Truthy(videoId)) =>
        /\ pc = "done"
        /\ outcome = Rejected("InvalidFormat")
        /\ fetches = <<>>
        /\ clicks = <<>>
        /\ toasts = <<>>

\* C3 witness: downloadVideo of a URL of the wrong platform is rejected with nothing
\* requested and nothing clicked.
InvalidFormatBeforeNetworkWitness ==
    /\ op = "download"
    /\ pc = "done"
    /\ url = <<"h","t","t","p","s",":","/","/","y","o","u","t","u",".","b","e","/","d","Q","w","4","w","9","W","g","X","c","Q">>
    /\ platform = "tiktok"
    /\ outcome = Rejected("InvalidFormat")
    /\ fetches = <<>>
    /\ clicks = <<>>

\* The literal part of each pattern of platform p.
Markers(p) ==
    CASE p = "youtube" -> YoutubeAlternatives
      [] p = "instagram" -> InstagramAlternatives
      [] p = "tiktok" -> {<<"t","i","k","t","o","k",".","c","o","m","/","@">>, <<"t","i","k","t","o","k",".","c","o","m","/","v","/">>}

\* C4: for every URL made of a lead, an accepted shape of the platform, an identifier
\* and a tail that starts at the delimiter of the pattern, extractVideoId returns the
\* identifier of the first match verbatim; for every URL that contains no literal
\* part of a pattern of the platform it returns null.
ExtractReturnsIdentifier ==
    (op = "extract" /\ pc = "done") =>
        /\ \A l \in Leads, s \in Shapes(platform), i \in Ids(platform), t \in Tails(platform) :
               url = l \o s \o i \o t => videoId = Str(i)
        /\ (\A m \in Markers(platform) : ~Includes(url, m)) => videoId = Null

\* C4 witness: a mixed-case identifier followed by a query that quotes a second URL
\* of the platform is returned verbatim.
ExtractReturnsIdentifierWitness ==
    /\ op = "extract"
    /\ pc = "done"
    /\ platform = "youtube"
    /\ url = <<"h","t","t","p","s",":","/","/","y","o","u","t","u",".","b","e","/","d","Q","w","4","w","9","W","g","X","c","Q","&","n","e","x","t","=","y","o","u","t","u",".","b","e","/","z","z">>
    /\ videoId = Str(<<"d","Q","w","4","w","9","W","g","X","c","Q">>)

\* Malformed inputs for platform p: the empty string, a well-formed URL of another
\* platform, a string that belongs to no platform.
Malformed(u, p) ==
    \/ u = <<>>
    \/ u \in Unrelated
    \/ \E q \in Platform \ {p} : u \in UrlsOf(q)

HostStart(u) ==
    IF Includes(u, <<":","/","/">>)
    THEN 3 + CHOOSE k \in 1..Len(u) :
                 MatchAt(u, k, <<":","/","/">>) /\ \A m \in 1..(k - 1) : ~MatchAt(u, m, <<":","/","/">>)
    ELSE 1

LowerSchemeHost(u) ==
    LET h == HostStart(u) + RunNot(u, HostStart(u), {"/"})
    IN [k \in 1..Len(u) |-> IF k < h THEN ToLowerChar(u[k]) ELSE u[k]]

\* C6: extractVideoId is case-insensitive on scheme and host and case-sensitive on the
\* identifier: a URL and the same URL with its scheme and host in lower case yield the
\* same result, and an identifier is returned with the letter case it has in the URL.
\* (Violated: the patterns carry no i flag.)
ExtractIgnoresSchemeHostCase ==
    (op = "extract" /\ pc = "done") =>
        /\ videoId = extractVideoId(LowerSchemeHost(url), platform)
        /\ Truthy(videoId) => Includes(url, videoId.v)

\* The fixed list of tiers of each platform (the table of the mock revision).
AllowedQualities(p) == mockData[p].availableQualities

\* C7: in every record fetchVideoData returns, on every path, availableQualities is
\* non-empty and within the fixed list of the requested platform, and it is the list
\* of the catch branch whatever payload the network delivered.
QualitiesWithinAllowed ==
    RecordReturned =>
        /\ outcome.record.availableQualities # <<>>
        /\ SeqToSet(outcome.record.availableQualities) \subseteq
               SeqToSet(AllowedQualities(platform))
        /\ op = "fetch" =>
               outcome.record.availableQualities =
                   FallbackRecord(videoId.v, platform).availableQualities

\* C7 witness: an instagram record built from a network payload.
QualitiesWithinAllowedWitness ==
    /\ RecordReturned
    /\ op = "fetch"
    /\ platform = "instagram"
    /\ path = "primary"
    /\ Truthy(data.title)
    /\ outcome.record.availableQualities = <<"1080p", "720p", "480p">>

\* C8: availableQualities is the full list of the six tiers for youtube and a list of
\* exactly three tiers for instagram and for tiktok, on every path of the API
\* revision.  (Violated: the youtube branches list five tiers, without 4k.)
FullTierListForYoutube ==
    (RecordReturned /\ op = "fetch") =>
        IF platform = "youtube"
        THEN outcome.record.availableQualities = Quality
        ELSE /\ Len(outcome.record.availableQualities) = 3
             /\ Cardinality(SeqToSet(outcome.record.availableQualities)) = 3

\* ^\d+:\d{2}$
MatchesDurationPattern(s) ==
    LET n == RunIn(s, 1, Digits)
    IN /\ n >= 1
       /\ Len(s) = n + 3
       /\ s[n + 1] = ":"
       /\ s[n + 2] \in Digits
       /\ s[n + 3] \in Digits

\* C9: the duration of every record fetchVideoData returns matches ^\d+:\d{2}$, on
\* every path, whatever lengthSeconds the secondary source carries.  (Violated: a
\* negative lengthSeconds is formatted with minus signs.)
DurationMatchesPattern ==
    RecordReturned => MatchesDurationPattern(outcome.record.duration)

\* C10: every record fetchVideoData returns has a non-empty title and a non-empty
\* thumbnail, also when the payload's title or thumbnail is empty or missing, and on
\* the fallback path the thumbnail contains the identifier.
TitleAndThumbnailPresent ==
    RecordReturned =>
        /\ outcome.record.title # <<>>
        /\ outcome.record.thumbnail # <<>>
        /\ (op = "fetch" /\ path = "fallback") =>
               Includes(outcome.record.thumbnail, videoId.v)

\* C10 witness: the payload carries an empty title and no thumbnail, and the record
\* has both.
TitleAndThumbnailPresentWitness ==
    /\ RecordReturned
    /\ path = "primary"
    /\ platform = "youtube"
    /\ data.title = Str(<<>>)
    /\ data.thumbnail_url = Null
    /\ outcome.record.title = <<"Y","o","u","T","u","b","e"," ","V","i","d","e","o">>
    /\ Includes(outcome.record.thumbnail, videoId.v)

\* C11: a call of fetchVideoData or downloadVideo with a platform outside the
\* enumeration fails with the unsupported-platform error: not with the invalid-format
\* error, not with the wrapped retrieval error, not with a record.  (Violated:
\* extractVideoId returns null for such a platform, so the invalid-format error is
\* thrown before either switch is entered.)
UnsupportedPlatformRaised ==
    (op \in {"fetch", "download"} /\ pc = "done" /\ platform \notin Platform) =>
        outcome = Rejected("UnsupportedPlatform")

\* C13: every call of fetchVideoData with an extractable identifier eventually
\* returns a record, also when a primary or secondary request is never answered.
\* (Violated: an unanswered request leaves the call suspended at its await for ever.)
FetchEventuallyReturnsRecord ==
    (op = "fetch" /\ Truthy(videoId) /\ platform \in Platform)
        ~> (pc = "done" /\ outcome.kind = "resolved")

\* Two consecutive calls took the catch branch, for the same platform, with different
\* identifiers whose character codes have the same sum.
SameSeedFallbacks ==
    /\ FetchDone
    /\ path = "fallback"
    /\ prev.present
    /\ prev.platform = platform
    /\ prev.videoId # videoId.v
    /\ Seed(prev.videoId) = Seed(videoId.v)

\* C15, as claimed: on the fallback path the title, the duration and the file size
\* are selected by the sum of the character codes of the identifier, so two
\* identifiers of the same platform with the same sum get the same title, duration and
\* size.  (Violated: the title embeds the identifier itself.)
FallbackSelectedBySeed ==
    SameSeedFallbacks =>
        /\ outcome.record.title = prev.record.title
        /\ outcome.record.duration = prev.record.duration
        /\ outcome.record.fileSize = prev.record.fileSize

FallbackTitle(p, id) ==
    CASE p = "youtube" -> <<"Y","o","u","T","u","b","e"," ","V","i","d","e","o"," ","(">> \o id \o <<")">>
      [] p = "instagram" -> <<"I","n","s","t","a","g","r","a","m"," ","P","o","s","t"," ","(">> \o id \o <<")">>
      [] p = "tiktok" -> <<"T","i","k","T","o","k"," ","V","i","d","e","o"," ","(">> \o id \o <<")">>

FallbackDuration(p) ==
    CASE p = "youtube" -> <<"3",":","0","0">>
      [] p = "instagram" -> <<"0",":","3","0">>
      [] p = "tiktok" -> <<"0",":","1","5">>

FallbackFileSize(p) ==
    CASE p = "youtube" -> <<"2","5"," ","M","B">>
      [] p = "instagram" -> <<"1","5"," ","M","B">>
      [] p = "tiktok" -> <<"5"," ","M","B">>

\* C15, amended: on the fallback path no seed is computed; the title is a fixed
\* platform-specific template with the identifier embedded verbatim, and the duration
\* and the file size are fixed per-platform constants (3:00 and 25 MB, 0:30 and 15 MB,
\* 0:15 and 5 MB) that do not depend on the identifier.
FallbackFromTemplateAndConstants ==
    (FetchDone /\ path = "fallback") =>
        /\ outcome.record.title = FallbackTitle(platform, videoId.v)
        /\ outcome.record.duration = FallbackDuration(platform)
        /\ outcome.record.fileSize = FallbackFileSize(platform)

\* C15 witness: two identifiers with the same sum of character codes got different
\* titles and the same duration and size.
FallbackFromTemplateAndConstantsWitness ==
    /\ SameSeedFallbacks
    /\ outcome.record.title # prev.record.title
    /\ outcome.record.duration = prev.record.duration
    /\ outcome.record.fileSize = prev.record.fileSize

\* C16, as claimed: on the fallback path, for every platform, the author is '@'
\* followed by a prefix of the identifier and nothing else.  (Violated on every
\* platform.)
FallbackAuthorIsAtPrefix ==
    (FetchDone /\ path = "fallback") =>
        \E n \in 0..Len(videoId.v) :
            outcome.record.author = <<"@">> \o Substring0(videoId.v, n)

\* C16, amended: on the fallback path the author is the literal 'YouTube Creator' for
\* youtube, '@user_' followed by the first 6 characters of the identifier for
\* instagram and '@tiktok_' followed by the first 6 characters of the identifier for
\* tiktok (a shorter identifier is used whole).
FallbackAuthorPerPlatform ==
    (FetchDone /\ path = "fallback") =>
        outcome.record.author =
            CASE platform = "youtube" -> <<"Y","o","u","T","u","b","e"," ","C","r","e","a","t","o","r">>
              [] platform = "instagram" -> <<"@","u","s","e","r","_">> \o Substring0(videoId.v, 6)
              [] platform = "tiktok" -> <<"@","t","i","k","t","o","k","_">> \o Substring0(videoId.v, 6)

\* C16 witness: an instagram identifier of nine characters is cut to six behind
\* '@user_'.
FallbackAuthorPerPlatformWitness ==
    /\ FetchDone
    /\ path = "fallback"
    /\ platform = "instagram"
    /\ videoId.v = <<"C","x","Y","z","_","9","-","a","B">>
    /\ outcome.record.author = <<"@","u","s","e","r","_","C","x","Y","z","_","9">>

ReturnedFromPayload ==
    /\ FetchDone
    /\ outcome.kind = "resolved"
    /\ path \in {"primary", "secondary_failed"}

DefaultTitle(p, id, d) ==
    CASE p = "youtube" -> <<"Y","o","u","T","u","b","e"," ","V","i","d","e","o">>
      [] p = "instagram" ->
           <<"I","n","s","t","a","g","r","a","m"," ","P","o","s","t"," ","b","y"," ">> \o (IF Truthy(d.author_name) THEN d.author_name.v ELSE <<"U","s","e","r">>)
      [] p = "tiktok" -> <<"T","i","k","T","o","k"," ","V","i","d","e","o"," ","(">> \o id \o <<")">>

AnySourceFailureTakesFallback ==
    (FetchDone /\ path \in {"fallback", "secondary_failed"}) =>
        outcome.record = FallbackRecord(videoId.v, platform)

\* C19, amended: a failure of the oEmbed request (throw, unsuccessful status,
\* unreadable payload) and a throw of the secondary request of youtube return the
\* fallback record; an unsuccessful status of the secondary request keeps the title,
\* thumbnail and author of the oEmbed payload and estimates the duration as
\* 60 + 5 * length of the identifier seconds and the size as 15 + 2 * length MB.
SourceFailureOutcome ==
    FetchDone =>
        /\ path = "fallback" =>
               /\ outcome.record.title = FallbackTitle(platform, videoId.v)
               /\ outcome.record.duration = FallbackDuration(platform)
               /\ outcome.record.fileSize = FallbackFileSize(platform)
        /\ path = "secondary_failed" =>
               /\ platform = "youtube"
               /\ fetches = <<"youtube_oembed", "invidious">>
               /\ outcome.record.title =
                      IF Truthy(data.title) THEN data.title.v ELSE <<"Y","o","u","T","u","b","e"," ","V","i","d","e","o">>
               /\ outcome.record.duration = formatDuration(60 + 5 * Len(videoId.v))
               /\ outcome.record.fileSize = NumToChars(15 + 2 * Len(videoId.v)) \o <<" ","M","B">>

\* C19 witness: the secondary source answered with an unsuccessful status for an
\* identifier of eleven characters.
SourceFailureOutcomeWitness ==
    /\ FetchDone
    /\ path = "secondary_failed"
    /\ videoId.v = <<"d","Q","w","4","w","9","W","g","X","c","Q">>
    /\ Truthy(data.title)
    /\ outcome.record.title = data.title.v
    /\ outcome.record.duration = <<"1",":","5","5">>
    /\ outcome.record.fileSize = <<"3","7"," ","M","B">>

\* C12: a stale response never overwrites a fresher state of the page: whenever
\* videoData is not null, it was resolved for the platform now selected and the url
\* the page now holds.  (Violated: the continuation of handleUrlChange calls
\* setVideoData whatever happened to platform and url while it was waiting.)
VideoDataResolvedForCurrentState ==
    ~index.videoData.isNull =>
        /\ resolvedFor.platform = index.platform
        /\ resolvedFor.url = index.url

\* C14: whenever extraction fails for the submitted url under the selected platform,
\* the submission is blocked in the input: UrlInput sets its error, onUrlChange is not
\* called and fetchVideoData is not invoked.  (Violated: validateUrl looks at the host
\* only.)
FailedExtractionBlockedInline ==
    [][(handleSubmit /\ ~Truthy(extractVideoId(urlInput.url, index.platform))) =>
           /\ Truthy(urlInput'.error)
           /\ pending' = pending
           /\ index' = index]_vars

\* C20: handlePlatformChange to another platform sets videoData to null and url to
\* the empty string, and with the selected platform it leaves platform, url and
\* videoData as they are; handleUrlChange sets videoData to null before its call of
\* fetchVideoData is made, and no record is held while a resolution is loading.
RecordDiscardedOnReplace ==
    [][/\ \A p \in Platform :
              handlePlatformChange(p) =>
                  IF p # index.platform
                  THEN /\ index'.platform = p
                       /\ index'.videoData = NoVideoData
                       /\ index'.url = <<>>
                  ELSE /\ index'.platform = index.platform
                       /\ index'.url = index.url
                       /\ index'.videoData = index.videoData
       /\ (handleSubmit /\ Len(pending') > Len(pending)) =>
              /\ index'.videoData = NoVideoData
              /\ index'.url = urlInput.url
              /\ pending'[Len(pending')].fn = "fetchVideoData"
       /\ index'.loading => index'.videoData = NoVideoData]_vars

\* C20 witness: a record was held, a new url was submitted, and the platform was
\* changed while its resolution was loading; no record is held.
RecordDiscardedOnReplaceWitness ==
    /\ index.loading
    /\ index.platform = "tiktok"
    /\ index.url = <<>>
    /\ index.videoData = NoVideoData
    /\ index.selectedQuality = "audio"
    /\ Len(pending) = 1
    /\ pending[1].fn = "fetchVideoData"
    /\ pending[1].platform = "youtube"

\* C21: in the blob revision of downloadVideo every object URL the call created has
\* been revoked when the call settles, on every path, the path on which appending or
\* clicking the link throws included.  (Violated: revokeObjectURL is a statement of
\* the try block, skipped when an earlier statement throws.)
ObjectUrlRevokedWhenSettled ==
    (op = "blob" /\ pc = "done") => objectUrls = <<>>


\* The services a branch of the redirect revision requests with fetch (the youtube
\* branch requests none: it only points the link at the ytdl endpoint).
BranchRequests(p) ==
    CASE p = "youtube" -> {}
      [] p = "instagram" -> {"instagram_proxy"}
      [] p = "tiktok" -> {"tiktok_proxy"}

\* name starts with `${p}_`
HasPlatformPrefix(name, p) ==
    /\ Len(name) > Len(PlatformName(p))
    /\ SubSeq(name, 1, Len(PlatformName(p)) + 1) = PlatformName(p) \o <<"_">>

\* C22: in the redirect revision of downloadVideo a call for a supported platform with
\* an extractable identifier runs only that platform's branch: it requests only that
\* platform's service, every file it offers is named with the platform's prefix, and
\* it never fails with 'Unsupported platform', whatever the proxies answer.
\* (Violated: a try block that ends without return falls through to the next case.)
DownloadStaysInOwnBranch ==
    (op = "download" /\ pc # "idle" /\ platform \in Platform /\ ~InvalidFormatThrown(videoId)) =>
        /\ SeqToSet(fetches) \subseteq BranchRequests(platform)
        /\ \A i \in 1..Len(clicks) : HasPlatformPrefix(clicks[i].download, platform)
        /\ outcome # Rejected("UnsupportedPlatform")


\* floor(d / 60) : (d mod 60, zero-padded to two digits), for d >= 0.
MinutesAndSeconds(d) ==
    NumToChars(d \div 60) \o <<":">> \o
        (IF d % 60 < 10 THEN <<"0">> ELSE <<>>) \o NumToChars(d % 60)

\* The integer nearest to n / d (n >= 0, d > 0), a half counting upwards.
NearestInteger(n, d) ==
    CHOOSE k \in 0..n : 2 * d * k - d <= 2 * n /\ 2 * n < 2 * d * k + d

\* C27: on the youtube primary path, when the secondary source answers successfully
\* with lengthSeconds = d (a non-negative integer, a missing value counting as 0), the
\* duration is floor(d/60):(d mod 60, two digits) and the size is round(d*10/60) MB;
\* when it answers with an unsuccessful status, with n the length of the identifier,
\* the duration is formatDuration(60 + 5n) and the size (15 + 2n) MB, both positive.
PrimaryPathNumerics ==
    [][/\ \A len \in LengthSeconds :
            (InvidiousJson(len) /\ ~data.isNull /\ (len.present => len.n >= 0)) =>
                LET d == IF len.present THEN len.n ELSE 0
                IN /\ outcome'.kind = "resolved"
                   /\ outcome'.record.duration = MinutesAndSeconds(d)
                   /\ outcome'.record.fileSize =
                          NumToChars(NearestInteger(d * 10, 60)) \o <<" ","M","B">>
       /\ (InvidiousResponse("not_ok") /\ ~data.isNull) =>
              LET n == Len(videoId.v)
              IN /\ outcome'.kind = "resolved"
                 /\ outcome'.record.duration = formatDuration(60 + 5 * n)
                 /\ outcome'.record.fileSize = NumToChars(15 + 2 * n) \o <<" ","M","B">>
                 /\ 60 + 5 * n > 0
                 /\ 15 + 2 * n > 0
                 /\ outcome'.record.duration # MinutesAndSeconds(0)
                 /\ outcome'.record.fileSize # <<"0"," ","M","B">>]_vars

\* A 45-second video: 0:45 and, 7.5 rounding upwards, 8 MB.
PrimaryPathNumericsWitness ==
    /\ op = "fetch" /\ pc = "done" /\ path = "primary"
    /\ outcome.kind = "resolved"
    /\ outcome.record.duration = <<"0",":","4","5">>
    /\ outcome.record.fileSize = <<"8"," ","M","B">>


\* C23: in every state of the page in which videoData is not null, selectedQuality is
\* one of videoData.availableQualities (each resolution selects 1080p when listed and
\* the first listed tier otherwise; the user picks among the listed tiers only).
SelectedQualityAvailable ==
    ~index.videoData.isNull =>
        index.selectedQuality \in SeqToSet(index.videoData.record.availableQualities)

\* A record that does not list 1080p is shown, and its first tier is selected.
SelectedQualityAvailableWitness ==
    /\ ~index.videoData.isNull
    /\ "1080p" \notin SeqToSet(index.videoData.record.availableQualities)
    /\ index.selectedQuality = index.videoData.record.availableQualities[1]


\* A call of fetchVideoData started by the page has not settled yet.
ResolutionInFlight == \E i \in 1..Len(pending) : pending[i].fn = "fetchVideoData"

\* C24: whenever the page calls downloadVideo(url, platform, quality), url is not
\* empty, videoData is not null and was resolved from that url and that platform, and
\* no resolution is loading, after any interleaving of submissions, platform
\* switches, quality changes, download clicks and arriving responses.
DownloadInvokedForResolvedVideo ==
    [][(handleDownload /\ Len(pending') = Len(pending) + 1) =>
           LET call == pending'[Len(pending')]
           IN /\ call.fn = "downloadVideo"
              /\ call.url # <<>>
              /\ ~index.videoData.isNull
              /\ resolvedFor = [url |-> call.url, platform |-> call.platform]
              /\ ~index.loading
              /\ ~ResolutionInFlight]_vars

\* downloadVideo is in flight for an instagram record, called with the url and the
\* platform the record was resolved from.
DownloadInvokedForResolvedVideoWitness ==
    /\ index.downloading
    /\ \E i \in 1..Len(pending) :
          /\ pending[i].fn = "downloadVideo"
          /\ resolvedFor = [url |-> pending[i].url, platform |-> pending[i].platform]
          /\ pending[i].platform = "instagram"


\* The calls of fn the page started that have not settled.
InFlight(fn) == {i \in 1..Len(pending) : pending[i].fn = fn}

\* C25: at most one resolution is in flight from the page at any time (the input and
\* its buttons are disabled while loading, also when the platform is switched during
\* loading), and at most one download is in flight (the download button is disabled
\* while downloading).
AtMostOneInFlight ==
    /\ Cardinality(InFlight("fetchVideoData")) <= 1
    /\ Cardinality(InFlight("downloadVideo")) <= 1

\* The platform was switched while a resolution is loading, and a download started
\* earlier is in flight too.
AtMostOneInFlightWitness ==
    /\ index.loading
    /\ index.downloading
    /\ \E i \in InFlight("fetchVideoData") : pending[i].platform # index.platform
    /\ InFlight("downloadVideo") # {}


\* C26: the busy flags always clear.  The continuation of every handleUrlChange whose
\* fetchVideoData settles, with a record or with an error, sets loading to false, and
\* the continuation of every handleDownload whose downloadVideo settles sets
\* downloading to false; loading is true only while a resolution is in flight and
\* downloading only while a download is in flight.
BusyFlagsClear ==
    /\ [](index.loading => InFlight("fetchVideoData") # {})
    /\ [](index.downloading => InFlight("downloadVideo") # {})
    /\ [][/\ (\E i \in 1..MaxPending : FetchVideoDataSettles(i)) => ~index'.loading
          /\ (\E i \in 1..MaxPending : DownloadVideoSettles(i)) => ~index'.downloading]_vars

\* A resolution has settled with an error (the url was submitted, no record came):
\* both flags are clear and nothing is in flight.
BusyFlagsClearWitness ==
    /\ index.url # <<>>
    /\ index.videoData.isNull
    /\ ~index.loading
    /\ ~index.downloading
    /\ pending = <<>>
====
